---- MODULE Spec2Model ----
(***************************************************************************)
(* route53-exporter (src/main.rs): list the hosted zones of an account,    *)
(* let the operator pick one zone or "All", fetch the record sets of the   *)
(* picked zones, map them to the export schema, serialize to JSON and      *)
(* write one file.                                                         *)
(*                                                                         *)
(* Option<T> is modelled as a sequence of length 0 (None) or 1 (Some(x)),  *)
(* so that Some("") , Some(0), Some(<<>>) and None are four different      *)
(* values.  Vec<T> is a sequence.  A JSON document is a tagged tree.       *)
(***************************************************************************)
EXTENDS Integers, Sequences, FiniteSets, TLC

(* ------------------------------ bounds --------------------------------- *)

\* Largest number of hosted zones the provider holds for the account.
MaxZones == 3

\* Largest number of record sets the provider holds for one zone.
MaxRecords == 3

\* Items the provider puts in one ListHostedZones response (MaxItems, 100 in
\* the real service), scaled down.
ZonePageSize == 2

\* Items the provider puts in one ListResourceRecordSets response (MaxItems,
\* 300 in the real service), scaled down.
RecordPageSize == 2

(* --------------------------- Option / Vec ------------------------------ *)

None == <<>>

Some(x) == <<x>>

IsSome(o) == Len(o) = 1

\* Option::map
OptMap(F(_), o) == [i \in 1..Len(o) |-> F(o[i])]

\* Iterator::map(..).collect::<Vec<_>>()
VecMap(F(_), v) == [i \in 1..Len(v) |-> F(v[i])]

Reverse(s) == [i \in 1..Len(s) |-> s[Len(s) + 1 - i]]

Min(a, b) == IF a <= b THEN a ELSE b

(* ------------------- provider types (aws_sdk_route53::types) ----------- *)

\* A provider enumeration value (RrType, ResourceRecordSetRegion,
\* ResourceRecordSetFailover): the enumeration it belongs to and its variant.
Enum(ty, variant) == [enum |-> ty, variant |-> variant]

\* .as_str(): the variant's symbolic name as a plain string.
as_str(e) == e.variant

\* A record set with every optional field absent.
BaseRecordSet ==
    [ name |-> "example.com.",
      type |-> Enum("RrType", "A"),
      set_identifier |-> None,
      weight |-> None,
      region |-> None,
      geo_location |-> None,
      failover |-> None,
      multi_value_answer |-> None,
      ttl |-> None,
      resource_records |-> None,
      alias_target |-> None,
      health_check_id |-> None,
      traffic_policy_instance_id |-> None,
      cidr_routing_config |-> None,
      geo_proximity_location |-> None ]

OptionalFields ==
    { "set_identifier", "weight", "region", "geo_location", "failover",
      "multi_value_answer", "ttl", "resource_records", "alias_target",
      "health_check_id", "traffic_policy_instance_id", "cidr_routing_config",
      "geo_proximity_location" }

\* Present values a provider record set can carry in each optional field,
\* the zero-like ones ("" , 0, FALSE, empty sequence, all-absent object)
\* included.
FieldValues(f) ==
    CASE f = "set_identifier" -> { "", "blue" }
      [] f = "weight" -> { 0, 10 }
      [] f = "region" -> { Enum("ResourceRecordSetRegion", "us-east-1"),
                           Enum("ResourceRecordSetRegion", "eu-west-1") }
      [] f = "geo_location" ->
            { [continent_code |-> None, country_code |-> None,
               subdivision_code |-> None],
              [continent_code |-> None, country_code |-> Some("US"),
               subdivision_code |-> Some("")],
              [continent_code |-> Some("EU"), country_code |-> None,
               subdivision_code |-> None] }
      [] f = "failover" -> { Enum("ResourceRecordSetFailover", "PRIMARY"),
                             Enum("ResourceRecordSetFailover", "SECONDARY") }
      [] f = "multi_value_answer" -> { FALSE, TRUE }
      [] f = "ttl" -> { 0, 300 }
      [] f = "resource_records" ->
            { <<>>,
              << [value |-> "1.2.3.4"] >>,
              << [value |-> "5.6.7.8"], [value |-> "1.2.3.4"] >> }
      [] f = "alias_target" ->
            { [hosted_zone_id |-> "Z2FDTNDATAQYW2",
               dns_name |-> "d111.cloudfront.net.",
               evaluate_target_health |-> FALSE],
              [hosted_zone_id |-> "", dns_name |-> "",
               evaluate_target_health |-> TRUE] }
      [] f = "health_check_id" -> { "", "hc-1" }
      [] f = "traffic_policy_instance_id" -> { "", "tpi-1" }
      [] f = "cidr_routing_config" ->
            { [collection_id |-> "c-1", location_name |-> "*"],
              [collection_id |-> "", location_name |-> ""] }
      [] f = "geo_proximity_location" ->
            { [aws_region |-> None, local_zone_group |-> None,
               coordinates |-> None, bias |-> None],
              [aws_region |-> Some("us-east-1"), local_zone_group |-> Some(""),
               coordinates |-> None, bias |-> Some(0)],
              [aws_region |-> None, local_zone_group |-> None,
               coordinates |-> Some([latitude |-> "48.85", longitude |-> "2.35"]),
               bias |-> Some(-5)] }

RrTypes == { Enum("RrType", "A"), Enum("RrType", "CNAME") }

\* The provider record sets the mapper is exercised on: every record type,
\* with up to two optional fields present, each with every value above.
WithField(r, f, v) == [r EXCEPT ![f] = Some(v)]

ProviderRecordSets ==
    { [BaseRecordSet EXCEPT !.type = t] : t \in RrTypes }
    \cup UNION { UNION { { WithField(WithField([BaseRecordSet EXCEPT !.type = t], f, v), g, w) :
                             t \in RrTypes, v \in FieldValues(f), w \in FieldValues(g) } :
                         g \in OptionalFields } :
                 f \in OptionalFields }

(* ------------------------- export schema (mod export) ------------------ *)

\* impl From<types::GeoLocation> for GeoLocation
FromGeoLocation(value) ==
    [ continent_code |-> value.continent_code,
      country_code |-> value.country_code,
      subdivision_code |-> value.subdivision_code ]

\* impl From<types::ResourceRecord> for ResourceRecord
FromResourceRecord(value) == [ value |-> value.value ]

\* impl From<types::AliasTarget> for AliasTarget
FromAliasTarget(value) ==
    [ hosted_zone_id |-> value.hosted_zone_id,
      dns_name |-> value.dns_name,
      evaluate_target_health |-> value.evaluate_target_health ]

\* impl From<types::CidrRoutingConfig> for CidrRoutingConfig
FromCidrRoutingConfig(value) ==
    [ collection_id |-> value.collection_id,
      location_name |-> value.location_name ]

\* impl From<types::Coordinates> for Coordinates
FromCoordinates(value) ==
    [ latitude |-> value.latitude, longitude |-> value.longitude ]

\* impl From<types::GeoProximityLocation> for GeoProximityLocation
FromGeoProximityLocation(value) ==
    [ aws_region |-> value.aws_region,
      local_zone_group |-> value.local_zone_group,
      coordinates |-> OptMap(FromCoordinates, value.coordinates),
      bias |-> value.bias ]

\* A mapper that fabricates defaults: an absent ttl becomes 0, an absent
\* resource_records sequence becomes an empty one.
FromResourceRecordSet_Defaults(value) ==
    [ name |-> value.name,
      type |-> as_str(value.type),
      set_identifier |-> value.set_identifier,
      weight |-> value.weight,
      region |-> OptMap(as_str, value.region),
      geo_location |-> OptMap(FromGeoLocation, value.geo_location),
      failover |-> OptMap(as_str, value.failover),
      multi_value_answer |-> value.multi_value_answer,
      ttl |-> IF IsSome(value.ttl) THEN value.ttl ELSE Some(0),
      resource_records |->
          IF IsSome(value.resource_records)
          THEN Some(VecMap(FromResourceRecord, value.resource_records[1]))
          ELSE Some(<<>>),
      alias_target |-> OptMap(FromAliasTarget, value.alias_target),
      health_check_id |-> value.health_check_id,
      traffic_policy_instance_id |-> value.traffic_policy_instance_id,
      cidr_routing_config |-> OptMap(FromCidrRoutingConfig, value.cidr_routing_config),
      geo_proximity_location |->
          OptMap(FromGeoProximityLocation, value.geo_proximity_location) ]

\* impl From<types::ResourceRecordSet> for ResourceRecordSet
FromResourceRecordSet(value) ==
    [ name |-> value.name,
      type |-> as_str(value.type),
      set_identifier |-> value.set_identifier,
      weight |-> value.weight,
      region |-> OptMap(as_str, value.region),
      geo_location |-> OptMap(FromGeoLocation, value.geo_location),
      failover |-> OptMap(as_str, value.failover),
      multi_value_answer |-> value.multi_value_answer,
      ttl |-> value.ttl,
      resource_records |->
          IF IsSome(value.resource_records)
          THEN Some(VecMap(FromResourceRecord, value.resource_records[1]))
          ELSE None,
      alias_target |-> OptMap(FromAliasTarget, value.alias_target),
      health_check_id |-> value.health_check_id,
      traffic_policy_instance_id |-> value.traffic_policy_instance_id,
      cidr_routing_config |-> OptMap(FromCidrRoutingConfig, value.cidr_routing_config),
      geo_proximity_location |->
          OptMap(FromGeoProximityLocation, value.geo_proximity_location) ]

\* An export builder that collects the record sets in reverse.
HostedZoneExportNew_Reversed(id, name, record_sets) ==
    [ id |-> id,
      name |-> name,
      record_sets |-> Reverse(VecMap(FromResourceRecordSet, record_sets)) ]

\* HostedZoneExport::new
HostedZoneExportNew(id, name, record_sets) ==
    [ id |-> id,
      name |-> name,
      record_sets |-> VecMap(FromResourceRecordSet, record_sets) ]

(* ------------------- serde_json (derive(Serialize)) -------------------- *)

JNull == [j |-> "null"]

JStr(s) == [j |-> "string", s |-> s]

JNum(n) == [j |-> "number", n |-> n]

JBool(b) == [j |-> "bool", b |-> b]

JArr(items) == [j |-> "array", items |-> items]

\* members: the object's <<key, value>> pairs in field order
JObj(members) == [j |-> "object", members |-> members]

\* Option<T>: None is null, Some(x) is x's own serialization
JOpt(F(_), o) == IF IsSome(o) THEN F(o[1]) ELSE JNull

SerGeoLocation(g) ==
    JObj(<< <<"continent_code", JOpt(JStr, g.continent_code)>>,
            <<"country_code", JOpt(JStr, g.country_code)>>,
            <<"subdivision_code", JOpt(JStr, g.subdivision_code)>> >>)

SerResourceRecord(r) == JObj(<< <<"value", JStr(r.value)>> >>)

SerResourceRecords(v) == JArr(VecMap(SerResourceRecord, v))

SerAliasTarget(a) ==
    JObj(<< <<"hosted_zone_id", JStr(a.hosted_zone_id)>>,
            <<"dns_name", JStr(a.dns_name)>>,
            <<"evaluate_target_health", JBool(a.evaluate_target_health)>> >>)

SerCidrRoutingConfig(c) ==
    JObj(<< <<"collection_id", JStr(c.collection_id)>>,
            <<"location_name", JStr(c.location_name)>> >>)

SerCoordinates(c) ==
    JObj(<< <<"latitude", JStr(c.latitude)>>,
            <<"longitude", JStr(c.longitude)>> >>)

SerGeoProximityLocation(g) ==
    JObj(<< <<"aws_region", JOpt(JStr, g.aws_region)>>,
            <<"local_zone_group", JOpt(JStr, g.local_zone_group)>>,
            <<"coordinates", JOpt(SerCoordinates, g.coordinates)>>,
            <<"bias", JOpt(JNum, g.bias)>> >>)

SerResourceRecordSet(r) ==
    JObj(<< <<"name", JStr(r.name)>>,
            <<"type", JStr(r.type)>>,
            <<"set_identifier", JOpt(JStr, r.set_identifier)>>,
            <<"weight", JOpt(JNum, r.weight)>>,
            <<"region", JOpt(JStr, r.region)>>,
            <<"geo_location", JOpt(SerGeoLocation, r.geo_location)>>,
            <<"failover", JOpt(JStr, r.failover)>>,
            <<"multi_value_answer", JOpt(JBool, r.multi_value_answer)>>,
            <<"ttl", JOpt(JNum, r.ttl)>>,
            <<"resource_records", JOpt(SerResourceRecords, r.resource_records)>>,
            <<"alias_target", JOpt(SerAliasTarget, r.alias_target)>>,
            <<"health_check_id", JOpt(JStr, r.health_check_id)>>,
            <<"traffic_policy_instance_id", JOpt(JStr, r.traffic_policy_instance_id)>>,
            <<"cidr_routing_config", JOpt(SerCidrRoutingConfig, r.cidr_routing_config)>>,
            <<"geo_proximity_location",
              JOpt(SerGeoProximityLocation, r.geo_proximity_location)>> >>)

SerHostedZoneExport(e) ==
    JObj(<< <<"id", JStr(e.id)>>,
            <<"name", JStr(e.name)>>,
            <<"record_sets", JArr(VecMap(SerResourceRecordSet, e.record_sets))>> >>)

\* serde_json::to_string_pretty(&exports) for a Vec<HostedZoneExport>
SerExports(exports) == JArr(VecMap(SerHostedZoneExport, exports))

\* The value of key k in a JSON object
JGet(obj, k) ==
    LET i == CHOOSE i \in 1..Len(obj.members) : obj.members[i][1] = k
    IN  obj.members[i][2]

JKeys(obj) == [i \in 1..Len(obj.members) |-> obj.members[i][1]]

(* ----------------------------- the provider ---------------------------- *)

\* Hosted zones an account can hold (types::HostedZone: id, name), in an
\* order that is not the order of their names.
ZoneUniverse ==
    << [id |-> "/hostedzone/Z1", name |-> "m.example."],
       [id |-> "/hostedzone/Z2", name |-> "a.example."],
       [id |-> "/hostedzone/Z3", name |-> "z.example."],
       [id |-> "/hostedzone/Z4", name |-> "c.example."],
       [id |-> "/hostedzone/Z5", name |-> "b.example."] >>

ZoneIds == { ZoneUniverse[i].id : i \in 1..Len(ZoneUniverse) }

\* The zone lists an account can hold: up to MaxZones zones, in either order.
ProviderZoneLists ==
    LET P == { SubSeq(ZoneUniverse, 1, n) : n \in 0..Min(MaxZones, Len(ZoneUniverse)) }
    IN  P \cup { Reverse(z) : z \in P }

\* Record sets a zone can hold: a simple A record, an alias record, a
\* weighted record with ttl 0 and an empty value list, a geolocation CNAME.
RecordUniverse ==
    << [[BaseRecordSet EXCEPT !.ttl = Some(300)]
            EXCEPT !.resource_records = Some(<< [value |-> "1.2.3.4"] >>)],
       [BaseRecordSet EXCEPT !.name = "www.example.com.",
                             !.alias_target =
                                 Some([hosted_zone_id |-> "Z2FDTNDATAQYW2",
                                       dns_name |-> "d111.cloudfront.net.",
                                       evaluate_target_health |-> FALSE])],
       [BaseRecordSet EXCEPT !.name = "w.example.com.",
                             !.set_identifier = Some(""),
                             !.weight = Some(0),
                             !.ttl = Some(0),
                             !.resource_records = Some(<<>>)],
       [BaseRecordSet EXCEPT !.name = "geo.example.com.",
                             !.type = Enum("RrType", "CNAME"),
                             !.geo_location =
                                 Some([continent_code |-> None,
                                       country_code |-> None,
                                       subdivision_code |-> None]),
                             !.ttl = Some(60),
                             !.resource_records =
                                 Some(<< [value |-> "b.example.com."],
                                         [value |-> "a.example.com."] >>)] >>

\* The record-set lists a zone can hold: up to MaxRecords consecutive
\* records of the universe, in either order.
ProviderRecordLists ==
    LET P == { SubSeq(RecordUniverse, a, b) :
                 a \in 1..Len(RecordUniverse), b \in 0..Len(RecordUniverse) }
        Q == { r \in P : Len(r) <= MaxRecords }
    IN  Q \cup { Reverse(r) : r \in Q }

\* One response of a list call: the first page of what the provider holds.
\* The program issues .send() once and reads no continuation marker.
FirstPage(held, size) == SubSeq(held, 1, Min(Len(held), size))

(* ------------------------------- state --------------------------------- *)

VARIABLES
    pc,                \* where main is
    exitCode,          \* "none" while running, then "0" or "nonzero"
    file,              \* the destination file
    providerZones,     \* the zones the provider holds for the account
    hosted_zone_count, \* Option: the count the count call reported
    hosted_zones,      \* get_hosted_zone: the zone list the list call returned
    options,           \* get_hosted_zone: the prompt's options
    selected,          \* Option: main's hz, the option the operator picked
    remaining,         \* main: the zones the All loop has still to visit
    exports,           \* main: exports (All) so far
    export_data,       \* Option: main's export_data
    rrsCalls,          \* history: each answered record-list call
    log,               \* history: every external event, in order
    mapIn,             \* Option: the record set handed to the mapper
    mapOut             \* Option: what the mapper returned

vars ==
    << pc, exitCode, file, providerZones, hosted_zone_count, hosted_zones,
       options, selected, remaining, exports, export_data, rrsCalls, log,
       mapIn, mapOut >>

mapperVars == << mapIn, mapOut >>

\* enum HZOption
All(zones) == [kind |-> "All", hosted_zones |-> zones]

HZ(zone) == [kind |-> "HZ", hz |-> zone]

\* impl Display for HZOption
Display(o) == IF o.kind = "All" THEN "All" ELSE o.hz.name

\* An option list with the sentinel pushed last.
BuildOptions_AllLast(zones) == Append(VecMap(HZ, zones), All(zones))

\* get_hosted_zone: options = one HZ per zone, then insert(0, All(zones))
BuildOptions(zones) == << All(zones) >> \o VecMap(HZ, zones)

\* A serialization that unwraps a one-element export list into its element.
SerializeAll_Unwrap(exps) ==
    IF Len(exps) = 1 THEN SerHostedZoneExport(exps[1]) ELSE SerExports(exps)

\* main, the All arm: to_string_pretty(&exports)
SerializeAll(exps) == SerExports(exps)

\* main, the HZ arm: to_string_pretty(&export)
SerializeOne(export) == SerHostedZoneExport(export)

Event(op, ok, zone) == [op |-> op, ok |-> ok, zone |-> zone]

FileUntouched == [state |-> "untouched"]

FilePartial == [state |-> "partial"]

FileWritten(data) == [state |-> "written", content |-> data]

Init ==
    /\ pc = "get_hosted_zone_count"
    /\ exitCode = "none"
    /\ file = FileUntouched
    /\ providerZones \in ProviderZoneLists
    /\ hosted_zone_count = None
    /\ hosted_zones = <<>>
    /\ options = <<>>
    /\ selected = None
    /\ remaining = <<>>
    /\ exports = <<>>
    /\ export_data = None
    /\ rrsCalls = <<>>
    /\ log = <<>>
    /\ mapIn = None
    /\ mapOut = None

\* `?` on an Err at any depth: main returns Err, the process exits non-zero.
Propagate(ev) ==
    /\ pc' = "failed"
    /\ exitCode' = "nonzero"
    /\ log' = Append(log, ev)

(* --------------------------- get_hosted_zone --------------------------- *)

\* The count the provider reports; informational, it may lag the list.
ReportedCounts == { Len(providerZones), 0 }

GetHostedZoneCountOk ==
    /\ pc = "get_hosted_zone_count"
    /\ \E n \in ReportedCounts : hosted_zone_count' = Some(n)
    /\ log' = Append(log, Event("get_hosted_zone_count", TRUE, ""))
    /\ pc' = "list_hosted_zones"
    /\ UNCHANGED << exitCode, file, providerZones, hosted_zones, options,
                    selected, remaining, exports, export_data, rrsCalls,
                    mapperVars >>

\* A failed count call that is issued again.
GetHostedZoneCountErr_Retry ==
    /\ pc = "get_hosted_zone_count"
    /\ Len(log) < 2
    /\ log' = Append(log, Event("get_hosted_zone_count", FALSE, ""))
    /\ UNCHANGED << pc, exitCode, file, providerZones, hosted_zone_count,
                    hosted_zones, options, selected, remaining, exports,
                    export_data, rrsCalls, mapperVars >>

GetHostedZoneCountErr ==
    /\ pc = "get_hosted_zone_count"
    /\ Propagate(Event("get_hosted_zone_count", FALSE, ""))
    /\ UNCHANGED << file, providerZones, hosted_zone_count, hosted_zones,
                    options, selected, remaining, exports, export_data,
                    rrsCalls, mapperVars >>

ListHostedZonesOk ==
    /\ pc = "list_hosted_zones"
    /\ hosted_zones' = FirstPage(providerZones, ZonePageSize)
    /\ options' = BuildOptions(hosted_zones')
    /\ log' = Append(log, Event("list_hosted_zones", TRUE, ""))
    /\ pc' = "prompt"
    /\ UNCHANGED << exitCode, file, providerZones, hosted_zone_count, selected,
                    remaining, exports, export_data, rrsCalls, mapperVars >>

ListHostedZonesErr ==
    /\ pc = "list_hosted_zones"
    /\ Propagate(Event("list_hosted_zones", FALSE, ""))
    /\ UNCHANGED << file, providerZones, hosted_zone_count, hosted_zones,
                    options, selected, remaining, exports, export_data,
                    rrsCalls, mapperVars >>

\* Select::prompt() returns the option the operator picked; main matches it.
PromptSelect ==
    /\ pc = "prompt"
    /\ \E i \in 1..Len(options) :
         /\ selected' = Some(options[i])
         /\ IF options[i].kind = "All"
            THEN /\ pc' = "loop"
                 /\ remaining' = options[i].hosted_zones
            ELSE /\ pc' = "single"
                 /\ remaining' = << options[i].hz >>
    /\ exports' = <<>>
    /\ log' = Append(log, Event("prompt", TRUE, ""))
    /\ UNCHANGED << exitCode, file, providerZones, hosted_zone_count,
                    hosted_zones, options, export_data, rrsCalls, mapperVars >>

\* An aborted prompt that falls back to the first option.
PromptAbort_DefaultAll ==
    /\ pc = "prompt"
    /\ selected' = Some(options[1])
    /\ pc' = "loop"
    /\ remaining' = hosted_zones
    /\ exports' = <<>>
    /\ log' = Append(log, Event("prompt", FALSE, ""))
    /\ UNCHANGED << exitCode, file, providerZones, hosted_zone_count,
                    hosted_zones, options, export_data, rrsCalls, mapperVars >>

\* Select::prompt() returns Err (the operator cancelled)
PromptAbort ==
    /\ pc = "prompt"
    /\ Propagate(Event("prompt", FALSE, ""))
    /\ UNCHANGED << file, providerZones, hosted_zone_count, hosted_zones,
                    options, selected, remaining, exports, export_data,
                    rrsCalls, mapperVars >>

(* ------------------------- get_export_data, main ----------------------- *)

\* get_export_data: one list_resource_record_sets().hosted_zone_id(hz.id())
\* .send(), whose resource_record_sets go to HostedZoneExport::new.
GetExportData(hz, held) ==
    HostedZoneExportNew(hz.id, hz.name, FirstPage(held, RecordPageSize))

RrsCall(hz, held) ==
    [ zone |-> hz.id,
      held |-> held,
      returned |-> FirstPage(held, RecordPageSize),
      is_truncated |-> Len(held) > RecordPageSize ]

\* main, All arm: one turn of `for hz in hosted_zones`, the call answered
LoopFetchOk ==
    /\ pc = "loop"
    /\ remaining # <<>>
    /\ \E held \in ProviderRecordLists :
         /\ exports' = Append(exports, GetExportData(Head(remaining), held))
         /\ rrsCalls' = Append(rrsCalls, RrsCall(Head(remaining), held))
    /\ remaining' = Tail(remaining)
    /\ log' = Append(log, Event("list_resource_record_sets", TRUE, Head(remaining).id))
    /\ UNCHANGED << pc, exitCode, file, providerZones, hosted_zone_count,
                    hosted_zones, options, selected, export_data, mapperVars >>

\* A loop that skips a zone whose call failed and goes on.
LoopFetchErr_Skip ==
    /\ pc = "loop"
    /\ remaining # <<>>
    /\ remaining' = Tail(remaining)
    /\ log' = Append(log, Event("list_resource_record_sets", FALSE, Head(remaining).id))
    /\ UNCHANGED << pc, exitCode, file, providerZones, hosted_zone_count,
                    hosted_zones, options, selected, exports, export_data,
                    rrsCalls, mapperVars >>

\* main, All arm: one turn of the loop, the call failed
LoopFetchErr ==
    /\ pc = "loop"
    /\ remaining # <<>>
    /\ Propagate(Event("list_resource_record_sets", FALSE, Head(remaining).id))
    /\ UNCHANGED << file, providerZones, hosted_zone_count, hosted_zones,
                    options, selected, remaining, exports, export_data,
                    rrsCalls, mapperVars >>

\* A loop end that treats "nothing to export" as an error.
LoopDone_RejectEmpty ==
    /\ pc = "loop"
    /\ remaining = <<>>
    /\ IF exports = <<>>
       THEN /\ pc' = "failed"
            /\ exitCode' = "nonzero"
            /\ UNCHANGED export_data
       ELSE /\ pc' = "write"
            /\ export_data' = Some(SerializeAll(exports))
            /\ UNCHANGED exitCode
    /\ UNCHANGED << file, providerZones, hosted_zone_count, hosted_zones,
                    options, selected, remaining, exports, rrsCalls, log,
                    mapperVars >>

\* main, All arm: the loop is over, exports is serialized
LoopDone ==
    /\ pc = "loop"
    /\ remaining = <<>>
    /\ export_data' = Some(SerializeAll(exports))
    /\ pc' = "write"
    /\ UNCHANGED << exitCode, file, providerZones, hosted_zone_count,
                    hosted_zones, options, selected, remaining, exports,
                    rrsCalls, log, mapperVars >>

\* main, HZ arm: the call answered, the one export is serialized
\* (exports holds the arm's local `export` as its only element)
SingleFetchOk ==
    /\ pc = "single"
    /\ \E held \in ProviderRecordLists :
         /\ exports' = << GetExportData(Head(remaining), held) >>
         /\ rrsCalls' = Append(rrsCalls, RrsCall(Head(remaining), held))
    /\ export_data' = Some(SerializeOne(exports'[1]))
    /\ remaining' = Tail(remaining)
    /\ log' = Append(log, Event("list_resource_record_sets", TRUE, Head(remaining).id))
    /\ pc' = "write"
    /\ UNCHANGED << exitCode, file, providerZones, hosted_zone_count,
                    hosted_zones, options, selected, mapperVars >>

\* main, HZ arm: the call failed
SingleFetchErr ==
    /\ pc = "single"
    /\ Propagate(Event("list_resource_record_sets", FALSE, Head(remaining).id))
    /\ UNCHANGED << file, providerZones, hosted_zone_count, hosted_zones,
                    options, selected, remaining, exports, export_data,
                    rrsCalls, mapperVars >>

\* fs::write(&export, export_data) succeeded
WriteOk ==
    /\ pc = "write"
    /\ file' = FileWritten(export_data[1])
    /\ log' = Append(log, Event("write", TRUE, ""))
    /\ pc' = "print"
    /\ UNCHANGED << exitCode, providerZones, hosted_zone_count, hosted_zones,
                    options, selected, remaining, exports, export_data,
                    rrsCalls, mapperVars >>

\* A failed write whose error is dropped.
WriteErr_Ignored ==
    /\ pc = "write"
    /\ file' \in { file, FilePartial }
    /\ log' = Append(log, Event("write", FALSE, ""))
    /\ pc' = "print"
    /\ UNCHANGED << exitCode, providerZones, hosted_zone_count, hosted_zones,
                    options, selected, remaining, exports, export_data,
                    rrsCalls, mapperVars >>

\* fs::write failed: the file could not be opened (left as it was) or was
\* opened and not fully written
WriteErr ==
    /\ pc = "write"
    /\ file' \in { file, FilePartial }
    /\ Propagate(Event("write", FALSE, ""))
    /\ UNCHANGED << providerZones, hosted_zone_count, hosted_zones, options,
                    selected, remaining, exports, export_data, rrsCalls,
                    mapperVars >>

\* println!("Successfully exported ..."); Ok(())
PrintSuccess ==
    /\ pc = "print"
    /\ log' = Append(log, Event("println_success", TRUE, ""))
    /\ pc' = "done"
    /\ exitCode' = "0"
    /\ UNCHANGED << file, providerZones, hosted_zone_count, hosted_zones,
                    options, selected, remaining, exports, export_data,
                    rrsCalls, mapperVars >>

Next ==
    \/ GetHostedZoneCountOk
    \/ GetHostedZoneCountErr
    \/ ListHostedZonesOk
    \/ ListHostedZonesErr
    \/ PromptSelect
    \/ PromptAbort
    \/ LoopFetchOk
    \/ LoopFetchErr
    \/ LoopDone
    \/ SingleFetchOk
    \/ SingleFetchErr
    \/ WriteOk
    \/ WriteErr
    \/ PrintSuccess

Spec == Init /\ [][Next]_vars

(* ------------------------ the Record Mapper alone ---------------------- *)

mainVars ==
    << exitCode, file, providerZones, hosted_zone_count, hosted_zones,
       options, selected, remaining, exports, export_data, rrsCalls, log >>

MapperInit ==
    /\ pc = "mapper"
    /\ exitCode = "none"
    /\ file = FileUntouched
    /\ providerZones = <<>>
    /\ hosted_zone_count = None
    /\ hosted_zones = <<>>
    /\ options = <<>>
    /\ selected = None
    /\ remaining = <<>>
    /\ exports = <<>>
    /\ export_data = None
    /\ rrsCalls = <<>>
    /\ log = <<>>
    /\ mapIn \in { Some(r) : r \in ProviderRecordSets }
    /\ mapOut = None

\* value.into() on one provider record set
ApplyFrom ==
    /\ pc = "mapper"
    /\ mapOut = None
    /\ mapOut' = Some([export |-> FromResourceRecordSet(mapIn[1]), json |-> None])
    /\ UNCHANGED << pc, mapIn, mainVars >>

\* the mapped record set serialized
SerializeMapped ==
    /\ pc = "mapper"
    /\ IsSome(mapOut)
    /\ mapOut[1].json = None
    /\ mapOut' = Some([mapOut[1] EXCEPT !.json = Some(SerResourceRecordSet(mapOut[1].export))])
    /\ UNCHANGED << pc, mapIn, mainVars >>

MapperNext == ApplyFrom \/ SerializeMapped

MapperSpec == MapperInit /\ [][MapperNext]_vars

(* ------------------------------ properties ----------------------------- *)

ProviderCallOps ==
    { "get_hosted_zone_count", "list_hosted_zones", "list_resource_record_sets" }

Happened(op, ok) == \E k \in DOMAIN log : log[k].op = op /\ log[k].ok = ok

Issued(op) == \E k \in DOMAIN log : log[k].op = op

CountOf(op) == Cardinality({ k \in DOMAIN log : log[k].op = op })

\* The zones of the selection, in the order main visits them
SelectedZones ==
    IF selected[1].kind = "All" THEN selected[1].hosted_zones ELSE << selected[1].hz >>

\* The zone ids of the record-list calls issued so far, in order
RrsCallZones ==
    LET IsRrs(e) == e.op = "list_resource_record_sets"
        calls == SelectSeq(log, IsRrs)
    IN  [k \in 1..Len(calls) |-> calls[k].zone]

ZoneIdsOf(zones) == [k \in 1..Len(zones) |-> zones[k].id]

IsPrefix(s, t) == Len(s) <= Len(t) /\ s = SubSeq(t, 1, Len(s))

Terminated == pc \in { "done", "failed" }

\* C1: whenever a provider call has failed (count, zone list, or the record
\* list of any selected zone), the run has ended in failure with a non-zero
\* exit and the destination file was never written.
C1_ProviderFailureWritesNothing ==
    (\E k \in DOMAIN log : log[k].op \in ProviderCallOps /\ ~log[k].ok)
        => /\ pc = "failed"
           /\ exitCode = "nonzero"
           /\ file = FileUntouched
           /\ ~Issued("write")
           /\ ~Issued("println_success")

\* The second zone of an "All" export fails after the first was fetched.
C1_Witness ==
    /\ IsSome(selected)
    /\ selected[1].kind = "All"
    /\ Len(exports) = 1
    /\ Happened("list_resource_record_sets", FALSE)
    /\ pc = "failed"

\* C2: once the operator has aborted the prompt, the run has ended in
\* failure with a non-zero exit, no record-list call was made and the
\* destination file was never written.
C2_AbortWritesNothing ==
    Happened("prompt", FALSE)
        => /\ pc = "failed"
           /\ exitCode = "nonzero"
           /\ ~Issued("list_resource_record_sets")
           /\ rrsCalls = <<>>
           /\ ~Issued("write")
           /\ file = FileUntouched
           /\ selected = None

C2_Witness ==
    /\ Happened("prompt", FALSE)
    /\ Len(hosted_zones) = 2
    /\ pc = "failed"

\* C3: on a run that got as far as serializing, every export carries every
\* record set the provider holds for its zone, and an "All" export carries
\* every hosted zone the provider holds.
C3_FullExport ==
    pc \in { "write", "print", "done" }
        => /\ \A k \in DOMAIN exports :
                exports[k].record_sets = VecMap(FromResourceRecordSet, rrsCalls[k].held)
           /\ selected[1].kind = "All"
                => ZoneIdsOf(exports) = ZoneIdsOf(providerZones)

\* C4: the prompt offers N+1 options for the N zones the zone-list call
\* returned: "All" (carrying the whole list) first, then zone i as option
\* i+1; what the flow returns is that sentinel or one of the listed zones.
C4_Options ==
    Happened("list_hosted_zones", TRUE)
        => /\ hosted_zones = FirstPage(providerZones, ZonePageSize)
           /\ Len(options) = Len(hosted_zones) + 1
           /\ options[1] = All(hosted_zones)
           /\ Display(options[1]) = "All"
           /\ \A i \in 1..Len(hosted_zones) :
                /\ options[i + 1] = HZ(hosted_zones[i])
                /\ Display(options[i + 1]) = hosted_zones[i].name
           /\ IsSome(selected)
                => \/ selected[1] = All(hosted_zones)
                   \/ \E i \in 1..Len(hosted_zones) : selected[1] = HZ(hosted_zones[i])

\* Two zones whose names are not in listing order; the second one picked.
C4_Witness ==
    /\ Len(hosted_zones) = 2
    /\ hosted_zones[1].name = "m.example."
    /\ IsSome(selected)
    /\ selected[1] = HZ(hosted_zones[2])

\* C5: export j is the j-th zone of the selection (for "All": of the
\* zone-list response), its i-th record set is the mapping of the i-th
\* record set the record-list call returned, record-list calls are issued
\* in zone order, and the written array keeps that order.
C5_OrderPreserved ==
    IsSome(selected)
        => /\ selected[1].kind = "All" => SelectedZones = hosted_zones
           /\ IsPrefix(RrsCallZones, ZoneIdsOf(SelectedZones))
           /\ Len(exports) = Len(rrsCalls)
           /\ \A j \in DOMAIN exports :
                /\ exports[j].id = SelectedZones[j].id
                /\ exports[j].name = SelectedZones[j].name
                /\ rrsCalls[j].zone = SelectedZones[j].id
                /\ Len(exports[j].record_sets) = Len(rrsCalls[j].returned)
                /\ \A i \in DOMAIN exports[j].record_sets :
                     exports[j].record_sets[i] =
                         FromResourceRecordSet(rrsCalls[j].returned[i])
           /\ (file.state = "written" /\ selected[1].kind = "All")
                => /\ Len(file.content.items) = Len(hosted_zones)
                   /\ \A j \in DOMAIN hosted_zones :
                        /\ JGet(file.content.items[j], "id") = JStr(hosted_zones[j].id)
                        /\ JGet(file.content.items[j], "name") = JStr(hosted_zones[j].name)
                        /\ JGet(file.content.items[j], "record_sets") =
                             JArr(VecMap(SerResourceRecordSet, exports[j].record_sets))

\* A finished "All" export of two zones, the first with two different
\* record sets.
C5_Witness ==
    /\ pc = "done"
    /\ selected[1].kind = "All"
    /\ Len(exports) = 2
    /\ Len(exports[1].record_sets) = 2
    /\ exports[1].record_sets[1] # exports[1].record_sets[2]
    /\ file.state = "written"

\* C6: the root of the serialized output is an object when one zone was
\* selected and an array (one item per listed zone) when "All" was, with
\* one zone or none as well.
C6_RootShape ==
    IsSome(export_data)
        => /\ selected[1].kind = "HZ"
                => /\ export_data[1].j = "object"
                   /\ JKeys(export_data[1]) = << "id", "name", "record_sets" >>
           /\ selected[1].kind = "All"
                => /\ export_data[1].j = "array"
                   /\ Len(export_data[1].items) = Len(hosted_zones)
           /\ file.state = "written" => file.content = export_data[1]

\* "All" picked in an account with exactly one zone, and written.
C6_Witness ==
    /\ IsSome(selected)
    /\ selected[1].kind = "All"
    /\ Len(hosted_zones) = 1
    /\ file.state = "written"
    /\ file.content.j = "array"

ZeroZonesAll ==
    /\ Happened("list_hosted_zones", TRUE)
    /\ Len(hosted_zones) = 0
    /\ IsSome(selected)
    /\ selected[1].kind = "All"

\* C7 as stated: with zero zones and "All" picked there is no record-list
\* call, the export sequence is empty, no error state is reached and the
\* run completes by writing the empty sequence.
C7_ZeroZonesNeverFails ==
    ZeroZonesAll
        => /\ ~Issued("list_resource_record_sets")
           /\ exports = <<>>
           /\ pc # "failed"
           /\ exitCode # "nonzero"
           /\ pc = "done" => file = FileWritten(JArr(<<>>))

\* C7, amended: with zero zones and "All" picked there is no record-list
\* call, the export sequence is empty and serializes to an empty array, and
\* the run fails only if the file write itself fails; otherwise it ends
\* with exit 0 and the empty array in the file.
C7_ZeroZonesFailsOnlyOnWrite ==
    ZeroZonesAll
        => /\ ~Issued("list_resource_record_sets")
           /\ exports = <<>>
           /\ pc \in { "loop", "write", "print", "done", "failed" }
           /\ pc \in { "write", "print", "done" } => export_data = Some(JArr(<<>>))
           /\ pc = "failed" => /\ log[Len(log)] = Event("write", FALSE, "")
                               /\ export_data = Some(JArr(<<>>))
           /\ pc \in { "print", "done" } => file = FileWritten(JArr(<<>>))
           /\ pc = "done" => exitCode = "0"

C7_Witness ==
    /\ ZeroZonesAll
    /\ pc = "done"
    /\ exitCode = "0"
    /\ file = FileWritten(JArr(<<>>))

ScalarFields ==
    { "set_identifier", "weight", "multi_value_answer", "ttl", "health_check_id",
      "traffic_policy_instance_id" }

EnumFields == { "region", "failover" }

\* C8: the mapper keeps presence and value: an optional field is absent in
\* the export (and null in its JSON) exactly when it is absent in the source;
\* a present field carries the source value ("" , 0, FALSE, the empty
\* sequence and the all-absent object included), enumerations as their
\* symbolic name, sequences in source order.
C8_MapperPreserves ==
    IsSome(mapOut)
        => LET r == mapIn[1]
               e == mapOut[1].export
               json == mapOut[1].json
           IN  /\ e.name = r.name
               /\ e.type = r.type.variant
               /\ \A f \in OptionalFields : IsSome(e[f]) <=> IsSome(r[f])
               /\ \A f \in ScalarFields : e[f] = r[f]
               /\ \A f \in EnumFields : IsSome(r[f]) => e[f] = Some(r[f][1].variant)
               /\ IsSome(r.geo_location)
                    => /\ e.geo_location[1].continent_code = r.geo_location[1].continent_code
                       /\ e.geo_location[1].country_code = r.geo_location[1].country_code
                       /\ e.geo_location[1].subdivision_code =
                              r.geo_location[1].subdivision_code
               /\ IsSome(r.resource_records)
                    => /\ Len(e.resource_records[1]) = Len(r.resource_records[1])
                       /\ \A i \in DOMAIN r.resource_records[1] :
                            e.resource_records[1][i].value = r.resource_records[1][i].value
               /\ IsSome(r.alias_target)
                    => /\ e.alias_target[1].hosted_zone_id = r.alias_target[1].hosted_zone_id
                       /\ e.alias_target[1].dns_name = r.alias_target[1].dns_name
                       /\ e.alias_target[1].evaluate_target_health =
                              r.alias_target[1].evaluate_target_health
               /\ IsSome(r.cidr_routing_config)
                    => /\ e.cidr_routing_config[1].collection_id =
                              r.cidr_routing_config[1].collection_id
                       /\ e.cidr_routing_config[1].location_name =
                              r.cidr_routing_config[1].location_name
               /\ IsSome(r.geo_proximity_location)
                    => LET g == r.geo_proximity_location[1]
                           h == e.geo_proximity_location[1]
                       IN  /\ h.aws_region = g.aws_region
                           /\ h.local_zone_group = g.local_zone_group
                           /\ h.bias = g.bias
                           /\ IsSome(h.coordinates) <=> IsSome(g.coordinates)
                           /\ IsSome(g.coordinates)
                                => /\ h.coordinates[1].latitude = g.coordinates[1].latitude
                                   /\ h.coordinates[1].longitude = g.coordinates[1].longitude
               /\ IsSome(json)
                    => /\ Len(JKeys(json[1])) = Cardinality(OptionalFields) + 2
                       /\ \A f \in OptionalFields :
                            (JGet(json[1], f) = JNull) <=> ~IsSome(r[f])
                       /\ IsSome(r.ttl) => JGet(json[1], "ttl") = JNum(r.ttl[1])
                       /\ IsSome(r.resource_records)
                            => Len(JGet(json[1], "resource_records").items) =
                                   Len(r.resource_records[1])

\* An alias record: alias_target kept with its 3 subfields, ttl and
\* resource_records absent, mapped and serialized.
C8_Witness ==
    /\ IsSome(mapOut)
    /\ IsSome(mapOut[1].json)
    /\ IsSome(mapIn[1].alias_target)
    /\ mapIn[1].ttl = None
    /\ mapIn[1].resource_records = None
    /\ mapOut[1].export.alias_target = Some([hosted_zone_id |-> "Z2FDTNDATAQYW2",
                                             dns_name |-> "d111.cloudfront.net.",
                                             evaluate_target_health |-> FALSE])
    /\ JGet(mapOut[1].json[1], "ttl") = JNull
    /\ JGet(mapOut[1].json[1], "resource_records") = JNull

\* The order the code fixes between two consecutive events
Follows(a, b) ==
    \/ a = "get_hosted_zone_count" /\ b = "list_hosted_zones"
    \/ a = "list_hosted_zones" /\ b = "prompt"
    \/ a = "prompt" /\ b = "list_resource_record_sets"
    \/ a = "prompt" /\ b = "write" /\ selected[1].kind = "All" /\ hosted_zones = <<>>
    \/ a = "list_resource_record_sets" /\ b = "list_resource_record_sets"
    \/ a = "list_resource_record_sets" /\ b = "write"
    \/ a = "write" /\ b = "println_success"

\* C9: events come in the order count call, zone-list call, prompt,
\* record-list calls, one write, success message, each only after the one
\* before succeeded; the write comes after a successful record-list call
\* for every selected zone; the run exits 0 exactly when the write
\* succeeded, and a failed write gives a non-zero exit and no message.
C9_EventOrder ==
    /\ log # <<>> => log[1].op = "get_hosted_zone_count"
    /\ \A k \in 1..(Len(log) - 1) : log[k].ok /\ Follows(log[k].op, log[k + 1].op)
    /\ CountOf("write") <= 1
    /\ CountOf("println_success") <= 1
    /\ Issued("write")
         => /\ RrsCallZones = ZoneIdsOf(SelectedZones)
            /\ ~Happened("list_resource_record_sets", FALSE)
    /\ Issued("println_success") => Happened("write", TRUE)
    /\ Happened("write", TRUE) => file = FileWritten(export_data[1])
    /\ ~Happened("write", TRUE) => file \in { FileUntouched, FilePartial }
    /\ ~Issued("write") => file = FileUntouched
    /\ Happened("write", FALSE)
         => pc = "failed" /\ exitCode = "nonzero" /\ ~Issued("println_success")
    /\ exitCode = "0" <=> pc = "done"
    /\ exitCode = "nonzero" <=> pc = "failed"
    /\ Terminated => (exitCode = "0" <=> Happened("write", TRUE))
    /\ pc = "done" => Issued("println_success")

\* A finished export of one picked zone.
C9_Witness ==
    /\ pc = "done"
    /\ selected[1].kind = "HZ"
    /\ Len(log) = 6
    /\ log[5] = Event("write", TRUE, "")
    /\ log[6] = Event("println_success", TRUE, "")

\* C10: the count call and the zone-list call are issued at most once, the
\* record-list call at most once per selected zone and only for selected
\* zones (exactly once each, with the zone's id, on a successful run), and
\* no provider call follows a failed one.
C10_NoRetry ==
    /\ CountOf("get_hosted_zone_count") <= 1
    /\ CountOf("list_hosted_zones") <= 1
    /\ \A z \in ZoneIds :
         Cardinality({ k \in DOMAIN log :
                         log[k].op = "list_resource_record_sets" /\ log[k].zone = z }) <= 1
    /\ \A k \in DOMAIN log :
         log[k].op = "list_resource_record_sets"
            => IsSome(selected) /\ \E i \in DOMAIN SelectedZones : SelectedZones[i].id = log[k].zone
    /\ pc = "done" => RrsCallZones = ZoneIdsOf(SelectedZones)
    /\ \A k \in DOMAIN log :
         (log[k].op \in ProviderCallOps /\ ~log[k].ok)
            => \A m \in DOMAIN log : m > k => log[m].op \notin ProviderCallOps

\* A finished "All" export of two zones: two record-list calls, one each.
C10_Witness ==
    /\ pc = "done"
    /\ selected[1].kind = "All"
    /\ RrsCallZones = << "/hostedzone/Z2", "/hostedzone/Z1" >>

====
